---- MODULE Spec2Model ----
(***************************************************************************)
(* PLTK scanning algorithms: scan, scan_if, scan_not, scan_if_not and the  *)
(* exclusion combinators scan_excluding and scan_while_excluding.          *)
(*                                                                         *)
(* A position (iterator) is the offset from the beginning of the source:   *)
(* 0 is begin(), Len(src) is the sentinel `last`, and the element read by  *)
(* *first is src[first + 1].  Characters are their ASCII codes.            *)
(***************************************************************************)
EXTENDS Integers, Sequences, FiniteSets, TLC

\* ----------------------------------------------------------------------
\* Bounds of the explored inputs
\* ----------------------------------------------------------------------
MaxLen == 3        \* longest source sequence
MaxPat == 2        \* longest comparison (pattern) sequence
MaxChain == 3      \* most chained statements of an example run

\* ----------------------------------------------------------------------
\* Element values and the policies the callers supply
\* ----------------------------------------------------------------------
\* 'B', 'H' and 'h'
Elements == {66, 72, 104}

\* comparison policies: std::ranges::equal_to, the two test lambdas, and
\* std::ranges::less as a policy that is not symmetric
Preds == {"equal_to", "returns_true", "returns_false", "less"}

\* transformation policies: std::identity and the two test lambdas
Projs == {"identity", "to_lower", "to_upper"}

\* unary predicates handed to scan_if / scan_if_not
UnaryPreds == {"returns_true", "returns_false", "is_H_upper", "is_h_lower"}

\* std::tolower / std::toupper in the "C" locale
to_lower(c) == IF c >= 65 /\ c <= 90 THEN c + 32 ELSE c

to_upper(c) == IF c >= 97 /\ c <= 122 THEN c - 32 ELSE c

\* std::invoke(proj, x)
invoke_proj(proj, c) ==
    CASE proj = "identity" -> c
      [] proj = "to_lower" -> to_lower(c)
      [] proj = "to_upper" -> to_upper(c)

\* a comparison that ignores the supplied policy and tests equality
invoke_pred_equality(pred, a, b) == a = b

\* a comparison that hands its operands to the policy in the opposite order
invoke_pred_swapped(pred, a, b) ==
    CASE pred = "equal_to"      -> b = a
      [] pred = "returns_true"  -> TRUE
      [] pred = "returns_false" -> FALSE
      [] pred = "less"          -> b < a

\* std::invoke(pred, a, b) for a comparison policy
invoke_pred(pred, a, b) ==
    CASE pred = "equal_to"      -> a = b
      [] pred = "returns_true"  -> TRUE
      [] pred = "returns_false" -> FALSE
      [] pred = "less"          -> a < b

\* the lambdas of the two example programs: c == 'u' and c == 'f'
ExampleUnaryPreds == {"is_u_lower", "is_f_lower"}

\* std::invoke(pred, x) for a unary predicate
invoke_upred(upred, c) ==
    CASE upred = "returns_true"  -> TRUE
      [] upred = "returns_false" -> FALSE
      [] upred = "is_H_upper"    -> c = 72
      [] upred = "is_h_lower"    -> c = 104
      [] upred = "is_u_lower"    -> c = 117
      [] upred = "is_f_lower"    -> c = 102

\* all sequences over S of length at most n
SeqsUpTo(S, n) == UNION {[1..k -> S] : k \in 0..n}

Sources == SeqsUpTo(Elements, MaxLen)

Patterns == SeqsUpTo(Elements, MaxPat)

\* ----------------------------------------------------------------------
\* The scan engine
\* ----------------------------------------------------------------------
\* std::ranges::mismatch(first1, last1, first2, last2, pred, proj1, proj2):
\* walks both ranges while neither is exhausted and the projected pair
\* satisfies pred; returns the two working cursors.
RECURSIVE mismatch(_, _, _, _, _, _, _)
mismatch(src, in1, pat, in2, pred, proj1, proj2) ==
    IF /\ in1 # Len(src)
       /\ in2 # Len(pat)
       /\ invoke_pred(pred, invoke_proj(proj1, src[in1 + 1]),
                            invoke_proj(proj2, pat[in2 + 1]))
    THEN mismatch(src, in1 + 1, pat, in2 + 1, pred, proj1, proj2)
    ELSE [in1 |-> in1, in2 |-> in2]

\* scan (1) projecting the value as well as the source element
scan_value_projects_value(src, first, value, pred, proj) ==
    IF first = Len(src)
       \/ ~invoke_pred(pred, invoke_proj(proj, src[first + 1]), invoke_proj(proj, value))
    THEN first
    ELSE first + 1

\* scan (1) with the negation of the comparison lost
scan_value_negated(src, first, value, pred, proj) ==
    IF first = Len(src) \/ invoke_pred(pred, invoke_proj(proj, src[first + 1]), value)
    THEN first
    ELSE first + 1

\* scan (1): single value
scan_value(src, first, value, pred, proj) ==
    IF first = Len(src) \/ ~invoke_pred(pred, invoke_proj(proj, src[first + 1]), value)
    THEN first
    ELSE first + 1

\* scan (3) returning the working cursor of the mismatch search even when the
\* comparison range was not exhausted
scan_pattern_partial(src, first, pat, pred, proj1, proj2) ==
    LET ends == mismatch(src, first, pat, 0, pred, proj1, proj2)
    IN  ends.in1

\* scan (3) returning one past the working cursor on a match
scan_pattern_off_by_one(src, first, pat, pred, proj1, proj2) ==
    LET ends == mismatch(src, first, pat, 0, pred, proj1, proj2)
    IN  IF ends.in2 = Len(pat) THEN ends.in1 + 1 ELSE first

\* scan (3): comparison range
scan_pattern(src, first, pat, pred, proj1, proj2) ==
    LET ends == mismatch(src, first, pat, 0, pred, proj1, proj2)
    IN  IF ends.in2 = Len(pat) THEN ends.in1 ELSE first

\* scan_if (7) applying the predicate to the element without projecting it
scan_if_unprojected(src, first, upred, proj) ==
    IF first = Len(src) \/ ~invoke_upred(upred, src[first + 1])
    THEN first
    ELSE first + 1

\* scan_if (7)
scan_if(src, first, upred, proj) ==
    IF first = Len(src) \/ ~invoke_upred(upred, invoke_proj(proj, src[first + 1]))
    THEN first
    ELSE first + 1

\* scan_not (1) comparing the element without projecting it
scan_not_value_unprojected(src, first, value, pred, proj) ==
    IF first = Len(src) \/ invoke_pred(pred, src[first + 1], value)
    THEN first
    ELSE first + 1

\* scan_not (1): single value
scan_not_value(src, first, value, pred, proj) ==
    IF first = Len(src) \/ invoke_pred(pred, invoke_proj(proj, src[first + 1]), value)
    THEN first
    ELSE first + 1

\* scan_not (3) advancing by the length of the comparison range, as scan does
scan_not_pattern_by_n(src, first, pat, pred, proj1, proj2) ==
    LET ptrs == mismatch(src, first, pat, 0, pred, proj1, proj2)
    IN  IF ptrs.in2 # Len(pat) THEN first + Len(pat) ELSE first

\* scan_not (3): comparison range
scan_not_pattern(src, first, pat, pred, proj1, proj2) ==
    LET ptrs == mismatch(src, first, pat, 0, pred, proj1, proj2)
    IN  IF ptrs.in2 # Len(pat) THEN first + 1 ELSE first

\* scan_if_not (7) with the body of scan_if
scan_if_not_as_scan_if(src, first, upred, proj) ==
    IF first = Len(src) \/ ~invoke_upred(upred, invoke_proj(proj, src[first + 1]))
    THEN first
    ELSE first + 1

\* scan_if_not (7)
scan_if_not(src, first, upred, proj) ==
    IF first = Len(src) \/ invoke_upred(upred, invoke_proj(proj, src[first + 1]))
    THEN first
    ELSE first + 1

\* ----------------------------------------------------------------------
\* Scanning operations handed to the combinators
\* ----------------------------------------------------------------------
\* A Scanner is any callable (I, S) -> I.  The model uses the six engine
\* operations with their arguments bound, and "table" scanners: black boxes
\* that report an advancement (by step, not past the end) exactly at the
\* positions in adv.
MkScanner(kind, v, pat, up, adv, step) ==
    [kind |-> kind, value |-> v, pattern |-> pat, upred |-> up,
     adv |-> adv, step |-> step]

NoScanner == MkScanner("none", 0, <<>>, "returns_false", {}, 0)

Scanners ==
    {MkScanner("scan_value", v, <<>>, "returns_false", {}, 0) : v \in Elements}
    \cup {MkScanner("scan_not_value", v, <<>>, "returns_false", {}, 0) : v \in Elements}
    \cup {MkScanner("scan_pattern", 0, pat, "returns_false", {}, 0) : pat \in Patterns}
    \cup {MkScanner("scan_not_pattern", 0, pat, "returns_false", {}, 0) : pat \in Patterns}
    \cup {MkScanner("scan_if", 0, <<>>, up, {}, 0) : up \in UnaryPreds}
    \cup {MkScanner("scan_if_not", 0, <<>>, up, {}, 0) : up \in UnaryPreds}
    \cup {MkScanner("table", 0, <<>>, "returns_false", adv, step) :
              adv \in SUBSET (0..MaxLen), step \in {1, 2}}

\* a callable that captures a comparison range together with the policies and
\* hands them to scan: [=](I first, S last) { return scan(first, last, pat,
\* pred, proj1, proj2); }
BoundScan(pat, p, pj1, pj2) ==
    [kind |-> "scan_pattern_with", value |-> 0, pattern |-> pat,
     upred |-> "returns_false", adv |-> {}, step |-> 0,
     pred |-> p, proj1 |-> pj1, proj2 |-> pj2]

Min(a, b) == IF a <= b THEN a ELSE b

\* std::invoke(scanner, first, last)
invoke_scanner(sc, src, first) ==
    CASE sc.kind = "scan_value" ->
             scan_value(src, first, sc.value, "equal_to", "identity")
      [] sc.kind = "scan_not_value" ->
             scan_not_value(src, first, sc.value, "equal_to", "identity")
      [] sc.kind = "scan_pattern" ->
             scan_pattern(src, first, sc.pattern, "equal_to", "identity", "identity")
      [] sc.kind = "scan_not_pattern" ->
             scan_not_pattern(src, first, sc.pattern, "equal_to", "identity", "identity")
      [] sc.kind = "scan_pattern_with" ->
             scan_pattern(src, first, sc.pattern, sc.pred, sc.proj1, sc.proj2)
      [] sc.kind = "scan_if" ->
             scan_if(src, first, sc.upred, "identity")
      [] sc.kind = "scan_if_not" ->
             scan_if_not(src, first, sc.upred, "identity")
      [] sc.kind = "table" ->
             IF first \in sc.adv THEN Min(first + sc.step, Len(src)) ELSE first

\* ----------------------------------------------------------------------
\* The exclusion combinators
\* ----------------------------------------------------------------------
\* scan_excluding with the test of the scanner's result inverted
scan_excluding_inverted(src, first, scanner) ==
    IF invoke_scanner(scanner, src, first) = first THEN first ELSE first + 1

scan_excluding(src, first, scanner) ==
    IF invoke_scanner(scanner, src, first) # first THEN first ELSE first + 1

\* scan_while_excluding giving up after skipping one element
scan_while_excluding_once(src, first, scanner) ==
    IF first # Len(src) /\ invoke_scanner(scanner, src, first) = first
    THEN first + 1
    ELSE first

RECURSIVE scan_while_excluding(_, _, _)
scan_while_excluding(src, first, scanner) ==
    IF first # Len(src) /\ invoke_scanner(scanner, src, first) = first
    THEN scan_while_excluding(src, first + 1, scanner)
    ELSE first

\* ----------------------------------------------------------------------
\* The range overloads: a range r stands for begin(r) = 0 and end(r) = Len(r)
\* ----------------------------------------------------------------------
\* scan (2) forwarding the default projection instead of proj
scan_value_range_drops_proj(r, value, pred, proj) ==
    scan_value(r, 0, value, pred, "identity")

\* scan (2): source range, single value
scan_value_range(r, value, pred, proj) ==
    scan_value(r, 0, value, pred, proj)

\* scan (4): source range, comparison iterators
scan_pattern_range(r, pat, pred, proj1, proj2) ==
    scan_pattern(r, 0, pat, pred, proj1, proj2)

\* scan (5): source iterators, comparison range
scan_pattern_to_range(src, first, r, pred, proj1, proj2) ==
    scan_pattern(src, first, r, pred, proj1, proj2)

\* scan (6): source range, comparison range
scan_pattern_ranges(r1, r2, pred, proj1, proj2) ==
    scan_pattern(r1, 0, r2, pred, proj1, proj2)

\* scan_if (8): source range
scan_if_range(r, upred, proj) ==
    scan_if(r, 0, upred, proj)

\* scan_not (2): source range, single value
scan_not_value_range(r, value, pred, proj) ==
    scan_not_value(r, 0, value, pred, proj)

\* scan_not (4): source range, comparison iterators
scan_not_pattern_range(r, pat, pred, proj1, proj2) ==
    scan_not_pattern(r, 0, pat, pred, proj1, proj2)

\* scan_not (5): source iterators, comparison range
scan_not_pattern_to_range(src, first, r, pred, proj1, proj2) ==
    scan_not_pattern(src, first, r, pred, proj1, proj2)

\* scan_not (6): source range, comparison range
scan_not_pattern_ranges(r1, r2, pred, proj1, proj2) ==
    scan_not_pattern(r1, 0, r2, pred, proj1, proj2)

\* scan_if_not (8): source range
scan_if_not_range(r, upred, proj) ==
    scan_if_not(r, 0, upred, proj)

\* ----------------------------------------------------------------------
\* What a call evaluates: element reads and invocations of the policies
\* ----------------------------------------------------------------------
\* reads: dereferences of the source cursor; preds, projs1, projs2: calls of
\* the predicate / comparison policy and of the two projections; compared:
\* the pattern offsets of the pairs compared, in order; scanned: the positions
\* at which the wrapped scanner was invoked, in order.
NoTrace ==
    [reads |-> 0, preds |-> 0, projs1 |-> 0, projs2 |-> 0,
     compared |-> <<>>, scanned |-> <<>>]

\* the single-element forms evaluating the predicate before the end test
element_trace_unguarded(src, first) ==
    [NoTrace EXCEPT !.reads = 1, !.preds = 1, !.projs1 = 1]

\* first == last || [!]invoke(pred, invoke(proj, *first) ...): nothing is
\* evaluated at the end; otherwise one read, one projection, one predicate
element_trace(src, first) ==
    IF first = Len(src)
    THEN NoTrace
    ELSE [NoTrace EXCEPT !.reads = 1, !.preds = 1, !.projs1 = 1]

\* a mismatch search that compares every pair up to the shorter range, without
\* stopping at the first pair that differs
RECURSIVE mismatch_compared_exhaustive(_, _, _, _, _, _, _)
mismatch_compared_exhaustive(src, in1, pat, in2, pred, proj1, proj2) ==
    IF in1 # Len(src) /\ in2 # Len(pat)
    THEN <<in2>> \o mismatch_compared_exhaustive(src, in1 + 1, pat, in2 + 1,
                                                 pred, proj1, proj2)
    ELSE <<>>

\* the pairs std::ranges::mismatch compares: a pair is compared when neither
\* range is exhausted, and the search goes on only if the pair satisfies pred
RECURSIVE mismatch_compared(_, _, _, _, _, _, _)
mismatch_compared(src, in1, pat, in2, pred, proj1, proj2) ==
    IF in1 # Len(src) /\ in2 # Len(pat)
    THEN <<in2>> \o
         (IF invoke_pred(pred, invoke_proj(proj1, src[in1 + 1]),
                               invoke_proj(proj2, pat[in2 + 1]))
          THEN mismatch_compared(src, in1 + 1, pat, in2 + 1, pred, proj1, proj2)
          ELSE <<>>)
    ELSE <<>>

\* the pattern forms: each compared pair costs one read, one call of each
\* projection and one call of the comparison policy
pattern_trace(src, first, pat, pred, proj1, proj2) ==
    LET cmp == mismatch_compared(src, first, pat, 0, pred, proj1, proj2)
    IN  [reads |-> Len(cmp), preds |-> Len(cmp), projs1 |-> Len(cmp),
         projs2 |-> Len(cmp), compared |-> cmp, scanned |-> <<>>]

\* scan_excluding invokes the scanner once, at first
scan_excluding_trace(src, first, scanner) ==
    [NoTrace EXCEPT !.scanned = <<first>>]

\* the positions at which the loop of scan_while_excluding invokes the scanner
RECURSIVE scan_while_excluding_scanned(_, _, _)
scan_while_excluding_scanned(src, first, scanner) ==
    IF first # Len(src)
    THEN <<first>> \o
         (IF invoke_scanner(scanner, src, first) = first
          THEN scan_while_excluding_scanned(src, first + 1, scanner)
          ELSE <<>>)
    ELSE <<>>

scan_while_excluding_trace(src, first, scanner) ==
    [NoTrace EXCEPT !.scanned = scan_while_excluding_scanned(src, first, scanner)]

\* ----------------------------------------------------------------------
\* Threads of the stepwise view: each runs one call, one evaluation at a time
\* ----------------------------------------------------------------------
Threads == {1, 2}

IdleThread ==
    [pc |-> "idle", op |-> "none", first |-> 0, cur |-> 0, in2 |-> 0,
     value |-> 0, pattern |-> <<>>, upred |-> "returns_false",
     scanner |-> NoScanner, result |-> 0]

\* ----------------------------------------------------------------------
\* State: one caller holding a cursor into a source, and its latest call
\* ----------------------------------------------------------------------
VARIABLES
    source,     \* the source sequence; last is Len(source)
    first,      \* the caller's cursor
    op,         \* the operation called last, "none" before a call
    value,      \* argument: the value compared with
    pattern,    \* argument: the comparison range
    pred,       \* argument: the comparison policy
    proj1,      \* argument: the projection of source elements
    proj2,      \* argument: the projection of pattern elements
    upred,      \* argument: the unary predicate
    scanner,    \* argument: the wrapped scanning operation
    result,     \* the position the call returned
    overload,   \* which overload was called: iterators or ranges
    trace,      \* what the call evaluated
    pc,         \* stepwise scan_while_excluding: "idle", "loop" or "done"
    cur,        \* stepwise scan_while_excluding: the working cursor
    iters,      \* stepwise scan_while_excluding: iterations of the loop so far
    threads,    \* concurrent callers: the call each thread is running
    chain       \* example runs: the statements executed, each with its result

vars == <<source, first, op, value, pattern, pred, proj1, proj2, upred, scanner, result,
          overload, trace, pc, cur, iters, threads, chain>>

TypeOK ==
    /\ source \in Sources
    /\ first \in 0..(MaxLen + 1)
    /\ op \in {"none", "scan_value", "scan_pattern", "scan_if", "scan_not_value",
               "scan_not_pattern", "scan_if_not", "scan_excluding",
               "scan_while_excluding"}
    /\ value \in Elements \cup {0}
    /\ pattern \in Patterns
    /\ pred \in Preds
    /\ proj1 \in Projs
    /\ proj2 \in Projs
    /\ upred \in UnaryPreds
    /\ scanner \in Scanners \cup {NoScanner}
    /\ result \in 0..(MaxLen + 1)
    /\ overload \in {"iterator", "source_range", "pattern_range", "both_ranges"}
    /\ trace.reads \in 0..MaxLen
    /\ trace.preds \in 0..MaxLen
    /\ trace.projs1 \in 0..MaxLen
    /\ trace.projs2 \in 0..MaxLen
    /\ Len(trace.compared) <= MaxLen
    /\ Len(trace.scanned) <= MaxLen
    /\ pc \in {"idle", "loop", "done"}
    /\ cur \in 0..MaxLen
    /\ iters \in 0..MaxLen
    /\ DOMAIN threads = Threads
    /\ Len(chain) <= MaxChain

\* the arguments a call leaves at their defaults
Idle ==
    /\ op = "none"
    /\ value = 0
    /\ pattern = <<>>
    /\ pred = "equal_to"
    /\ proj1 = "identity"
    /\ proj2 = "identity"
    /\ upred = "returns_false"
    /\ scanner = NoScanner

Init ==
    /\ source \in Sources
    /\ first \in 0..Len(source)
    /\ result = first
    /\ Idle
    /\ overload = "iterator"
    /\ trace = NoTrace
    /\ pc = "idle"
    /\ cur = 0
    /\ iters = 0
    /\ threads = [t \in Threads |-> IdleThread]
    /\ chain = <<>>

\* the caller holds a valid cursor and is not inside a call
CanCall == op = "none" /\ first \in 0..Len(source)

Returns(o, v, pat, p, pj1, pj2, up, sc, res) ==
    /\ op' = o
    /\ value' = v
    /\ pattern' = pat
    /\ pred' = p
    /\ proj1' = pj1
    /\ proj2' = pj2
    /\ upred' = up
    /\ scanner' = sc
    /\ result' = res
    /\ UNCHANGED <<source, first>>

\* a whole call evaluated in one step: the overload called and what it evaluated
Atomic(ov, tr) ==
    /\ overload' = ov
    /\ trace' = tr
    /\ UNCHANGED <<pc, cur, iters, threads, chain>>

CallScanValue ==
    /\ CanCall
    /\ \E v \in Elements, p \in Preds, pj \in Projs :
          Returns("scan_value", v, <<>>, p, pj, "identity", "returns_false", NoScanner,
                  scan_value(source, first, v, p, pj))
    /\ Atomic("iterator", element_trace(source, first))

CallScanPattern ==
    /\ CanCall
    /\ \E pat \in Patterns, p \in Preds, pj1 \in Projs, pj2 \in Projs :
          /\ Returns("scan_pattern", 0, pat, p, pj1, pj2, "returns_false", NoScanner,
                     scan_pattern(source, first, pat, p, pj1, pj2))
          /\ Atomic("iterator", pattern_trace(source, first, pat, p, pj1, pj2))

CallScanIf ==
    /\ CanCall
    /\ \E up \in UnaryPreds, pj \in Projs :
          Returns("scan_if", 0, <<>>, "equal_to", pj, "identity", up, NoScanner,
                  scan_if(source, first, up, pj))
    /\ Atomic("iterator", element_trace(source, first))

CallScanNotValue ==
    /\ CanCall
    /\ \E v \in Elements, p \in Preds, pj \in Projs :
          Returns("scan_not_value", v, <<>>, p, pj, "identity", "returns_false", NoScanner,
                  scan_not_value(source, first, v, p, pj))
    /\ Atomic("iterator", element_trace(source, first))

CallScanNotPattern ==
    /\ CanCall
    /\ \E pat \in Patterns, p \in Preds, pj1 \in Projs, pj2 \in Projs :
          /\ Returns("scan_not_pattern", 0, pat, p, pj1, pj2, "returns_false", NoScanner,
                     scan_not_pattern(source, first, pat, p, pj1, pj2))
          /\ Atomic("iterator", pattern_trace(source, first, pat, p, pj1, pj2))

CallScanIfNot ==
    /\ CanCall
    /\ \E up \in UnaryPreds, pj \in Projs :
          Returns("scan_if_not", 0, <<>>, "equal_to", pj, "identity", up, NoScanner,
                  scan_if_not(source, first, up, pj))
    /\ Atomic("iterator", element_trace(source, first))

CallScanExcluding ==
    /\ CanCall
    /\ \E sc \in Scanners :
          /\ Returns("scan_excluding", 0, <<>>, "equal_to", "identity", "identity",
                     "returns_false", sc, scan_excluding(source, first, sc))
          /\ Atomic("iterator", scan_excluding_trace(source, first, sc))

CallScanWhileExcluding ==
    /\ CanCall
    /\ \E sc \in Scanners :
          /\ Returns("scan_while_excluding", 0, <<>>, "equal_to", "identity", "identity",
                     "returns_false", sc, scan_while_excluding(source, first, sc))
          /\ Atomic("iterator", scan_while_excluding_trace(source, first, sc))

\* The range overloads, called by a caller whose cursor is at begin(r), so that
\* the returned position compares with first as in the tests.
CallScanValueRange ==
    /\ CanCall
    /\ first = 0
    /\ \E v \in Elements, p \in Preds, pj \in Projs :
          Returns("scan_value", v, <<>>, p, pj, "identity", "returns_false", NoScanner,
                  scan_value_range(source, v, p, pj))
    /\ Atomic("source_range", element_trace(source, 0))

CallScanPatternRange ==
    /\ CanCall
    /\ \E pat \in Patterns, p \in Preds, pj1 \in Projs, pj2 \in Projs :
          \/ /\ first = 0
             /\ Returns("scan_pattern", 0, pat, p, pj1, pj2, "returns_false", NoScanner,
                        scan_pattern_range(source, pat, p, pj1, pj2))
             /\ Atomic("source_range", pattern_trace(source, 0, pat, p, pj1, pj2))
          \/ /\ Returns("scan_pattern", 0, pat, p, pj1, pj2, "returns_false", NoScanner,
                        scan_pattern_to_range(source, first, pat, p, pj1, pj2))
             /\ Atomic("pattern_range", pattern_trace(source, first, pat, p, pj1, pj2))
          \/ /\ first = 0
             /\ Returns("scan_pattern", 0, pat, p, pj1, pj2, "returns_false", NoScanner,
                        scan_pattern_ranges(source, pat, p, pj1, pj2))
             /\ Atomic("both_ranges", pattern_trace(source, 0, pat, p, pj1, pj2))

CallScanIfRange ==
    /\ CanCall
    /\ first = 0
    /\ \E up \in UnaryPreds, pj \in Projs :
          Returns("scan_if", 0, <<>>, "equal_to", pj, "identity", up, NoScanner,
                  scan_if_range(source, up, pj))
    /\ Atomic("source_range", element_trace(source, 0))

CallScanNotValueRange ==
    /\ CanCall
    /\ first = 0
    /\ \E v \in Elements, p \in Preds, pj \in Projs :
          Returns("scan_not_value", v, <<>>, p, pj, "identity", "returns_false", NoScanner,
                  scan_not_value_range(source, v, p, pj))
    /\ Atomic("source_range", element_trace(source, 0))

CallScanNotPatternRange ==
    /\ CanCall
    /\ \E pat \in Patterns, p \in Preds, pj1 \in Projs, pj2 \in Projs :
          \/ /\ first = 0
             /\ Returns("scan_not_pattern", 0, pat, p, pj1, pj2, "returns_false", NoScanner,
                        scan_not_pattern_range(source, pat, p, pj1, pj2))
             /\ Atomic("source_range", pattern_trace(source, 0, pat, p, pj1, pj2))
          \/ /\ Returns("scan_not_pattern", 0, pat, p, pj1, pj2, "returns_false", NoScanner,
                        scan_not_pattern_to_range(source, first, pat, p, pj1, pj2))
             /\ Atomic("pattern_range", pattern_trace(source, first, pat, p, pj1, pj2))
          \/ /\ first = 0
             /\ Returns("scan_not_pattern", 0, pat, p, pj1, pj2, "returns_false", NoScanner,
                        scan_not_pattern_ranges(source, pat, p, pj1, pj2))
             /\ Atomic("both_ranges", pattern_trace(source, 0, pat, p, pj1, pj2))

CallScanIfNotRange ==
    /\ CanCall
    /\ first = 0
    /\ \E up \in UnaryPreds, pj \in Projs :
          Returns("scan_if_not", 0, <<>>, "equal_to", pj, "identity", up, NoScanner,
                  scan_if_not_range(source, up, pj))
    /\ Atomic("source_range", element_trace(source, 0))

\* first = scan(first, last, ...): the caller continues from the returned
\* position
Assign ==
    /\ op # "none"
    /\ first' = result
    /\ result' = result
    /\ op' = "none"
    /\ value' = 0
    /\ pattern' = <<>>
    /\ pred' = "equal_to"
    /\ proj1' = "identity"
    /\ proj2' = "identity"
    /\ upred' = "returns_false"
    /\ scanner' = NoScanner
    /\ Atomic("iterator", NoTrace)
    /\ UNCHANGED source

Next ==
    \/ CallScanValue
    \/ CallScanPattern
    \/ CallScanIf
    \/ CallScanNotValue
    \/ CallScanNotPattern
    \/ CallScanIfNot
    \/ CallScanExcluding
    \/ CallScanWhileExcluding
    \/ Assign

Spec == Init /\ [][Next]_vars

\* ----------------------------------------------------------------------
\* A caller of the range overloads
\* ----------------------------------------------------------------------
MaxRangeLen == 2   \* longest source handed to a range overload

RangeInit ==
    /\ source \in SeqsUpTo(Elements, MaxRangeLen)
    /\ first \in 0..Len(source)
    /\ result = first
    /\ Idle
    /\ overload = "iterator"
    /\ trace = NoTrace
    /\ pc = "idle"
    /\ cur = 0
    /\ iters = 0
    /\ threads = [t \in Threads |-> IdleThread]
    /\ chain = <<>>

RangeNext ==
    \/ CallScanValueRange
    \/ CallScanPatternRange
    \/ CallScanIfRange
    \/ CallScanNotValueRange
    \/ CallScanNotPatternRange
    \/ CallScanIfNotRange
    \/ Assign

RangeSpec == RangeInit /\ [][RangeNext]_vars

\* ----------------------------------------------------------------------
\* scan_while_excluding, one evaluation of the loop condition at a time
\* ----------------------------------------------------------------------
\* while (first != last && std::invoke(scanner, first, last) == first)
LoopContinues == cur # Len(source) /\ invoke_scanner(scanner, source, cur) = cur

\* the loop condition invoking the scanner before the test first != last
ScannedAtCur_unguarded == Append(trace.scanned, cur)

\* the positions at which the scanner has been invoked, after testing at cur
ScannedAtCur ==
    IF cur # Len(source) THEN Append(trace.scanned, cur) ELSE trace.scanned

\* the call is entered: the parameter first is the working cursor
LoopEnter ==
    /\ CanCall
    /\ pc = "idle"
    /\ \E sc \in Scanners : scanner' = sc
    /\ op' = "scan_while_excluding"
    /\ pc' = "loop"
    /\ cur' = first
    /\ iters' = 0
    /\ trace' = NoTrace
    /\ UNCHANGED <<source, first, value, pattern, pred, proj1, proj2, upred, result,
                   overload, threads, chain>>

\* the loop with ++first forgotten
LoopIterate_no_advance ==
    /\ pc = "loop"
    /\ LoopContinues
    /\ iters <= MaxLen
    /\ cur' = cur
    /\ iters' = iters + 1
    /\ trace' = trace
    /\ UNCHANGED <<source, first, op, value, pattern, pred, proj1, proj2, upred, scanner,
                   result, overload, pc, threads, chain>>

\* the condition holds: ++first
LoopIterate ==
    /\ pc = "loop"
    /\ LoopContinues
    /\ cur' = cur + 1
    /\ iters' = iters + 1
    /\ trace' = [trace EXCEPT !.scanned = ScannedAtCur]
    /\ UNCHANGED <<source, first, op, value, pattern, pred, proj1, proj2, upred, scanner,
                   result, overload, pc, threads, chain>>

\* the loop returning the position it was entered with
LoopReturn_original ==
    /\ pc = "loop"
    /\ ~LoopContinues
    /\ result' = first
    /\ pc' = "done"
    /\ trace' = [trace EXCEPT !.scanned = ScannedAtCur]
    /\ UNCHANGED <<source, first, op, value, pattern, pred, proj1, proj2, upred, scanner,
                   overload, cur, iters, threads, chain>>

\* the condition fails: return first
LoopReturn ==
    /\ pc = "loop"
    /\ ~LoopContinues
    /\ result' = cur
    /\ pc' = "done"
    /\ trace' = [trace EXCEPT !.scanned = ScannedAtCur]
    /\ UNCHANGED <<source, first, op, value, pattern, pred, proj1, proj2, upred, scanner,
                   overload, cur, iters, threads, chain>>

LoopNext ==
    \/ LoopEnter
    \/ LoopIterate
    \/ LoopReturn

\* a call that has been entered keeps executing
LoopSpec ==
    /\ Init
    /\ [][LoopNext]_vars
    /\ WF_vars(LoopIterate)
    /\ WF_vars(LoopReturn)

\* ----------------------------------------------------------------------
\* Concurrent callers on one shared, read-only source
\* ----------------------------------------------------------------------
MaxConcLen == 2    \* longest source the threads share

\* sources over 'H' and 'h'
ConcSources == SeqsUpTo({72, 104}, MaxConcLen)

\* the comparison ranges of the threads' calls
ConcPatterns == {<<>>, <<72>>, <<72, 104>>}

\* the scanners the threads wrap: scan 'H' and scan "Hh"
ConcScanners ==
    {MkScanner("scan_value", 72, <<>>, "returns_false", {}, 0),
     MkScanner("scan_pattern", 0, <<72, 104>>, "returns_false", {}, 0)}

\* thread t enters a call with its arguments; policies are the defaults
Enter(t, o, f, v, pat, up, sc) ==
    threads' = [threads EXCEPT ![t] =
                   [pc |-> "run", op |-> o, first |-> f, cur |-> f, in2 |-> 0,
                    value |-> v, pattern |-> pat, upred |-> up, scanner |-> sc,
                    result |-> f]]

\* thread t returns res
Return(t, res) ==
    threads' = [threads EXCEPT ![t].pc = "done", ![t].result = res]

\* everything but the threads' own records
Shared == <<source, first, op, value, pattern, pred, proj1, proj2, upred, scanner,
            result, overload, trace, pc, cur, iters, chain>>

TStart(t) ==
    /\ threads[t].pc = "idle"
    /\ \E f \in 0..Len(source) :
          \/ \E o \in {"scan_value", "scan_not_value"} :
                Enter(t, o, f, 72, <<>>, "returns_false", NoScanner)
          \/ \E o \in {"scan_if", "scan_if_not"} :
                Enter(t, o, f, 0, <<>>, "is_H_upper", NoScanner)
          \/ \E o \in {"scan_pattern", "scan_not_pattern"}, pat \in ConcPatterns :
                Enter(t, o, f, 0, pat, "returns_false", NoScanner)
          \/ \E o \in {"scan_excluding", "scan_while_excluding"}, sc \in ConcScanners :
                Enter(t, o, f, 0, <<>>, "returns_false", sc)
    /\ UNCHANGED Shared

\* a single-element form: the end test, one read, one comparison, return
TStepElement(t) ==
    LET th == threads[t]
    IN  /\ th.pc = "run"
        /\ th.op \in {"scan_value", "scan_not_value", "scan_if", "scan_if_not"}
        /\ Return(t, CASE th.op = "scan_value" ->
                              scan_value(source, th.first, th.value, "equal_to", "identity")
                       [] th.op = "scan_not_value" ->
                              scan_not_value(source, th.first, th.value, "equal_to", "identity")
                       [] th.op = "scan_if" ->
                              scan_if(source, th.first, th.upred, "identity")
                       [] th.op = "scan_if_not" ->
                              scan_if_not(source, th.first, th.upred, "identity"))
        /\ UNCHANGED Shared

\* the pair under the working cursors of thread t exists and compares equal
PairMatches(t) ==
    LET th == threads[t]
    IN  /\ th.cur # Len(source)
        /\ th.in2 # Len(th.pattern)
        /\ invoke_pred("equal_to", source[th.cur + 1], th.pattern[th.in2 + 1])

\* a mismatch search that moves the compared element out of the source
TStepMismatch_moves_out(t) ==
    /\ threads[t].pc = "run"
    /\ threads[t].op \in {"scan_pattern", "scan_not_pattern"}
    /\ PairMatches(t)
    /\ threads' = [threads EXCEPT ![t].cur = @ + 1, ![t].in2 = @ + 1]
    /\ source' = [source EXCEPT ![threads[t].cur + 1] = 0]
    /\ UNCHANGED <<first, op, value, pattern, pred, proj1, proj2, upred, scanner,
                   result, overload, trace, pc, cur, iters, chain>>

\* a mismatch search that consumes the comparison range as it reads it
TStepMismatch_consumes_pattern(t) ==
    /\ threads[t].pc = "run"
    /\ threads[t].op \in {"scan_pattern", "scan_not_pattern"}
    /\ PairMatches(t)
    /\ threads' = [threads EXCEPT ![t].cur = @ + 1, ![t].pattern = Tail(@)]
    /\ UNCHANGED Shared

\* one iteration of std::ranges::mismatch: the pair matches, both cursors move
TStepMismatch(t) ==
    /\ threads[t].pc = "run"
    /\ threads[t].op \in {"scan_pattern", "scan_not_pattern"}
    /\ PairMatches(t)
    /\ threads' = [threads EXCEPT ![t].cur = @ + 1, ![t].in2 = @ + 1]
    /\ UNCHANGED Shared

\* the mismatch search ended: the pattern form returns
TReturnPattern(t) ==
    LET th == threads[t]
    IN  /\ th.pc = "run"
        /\ th.op \in {"scan_pattern", "scan_not_pattern"}
        /\ ~PairMatches(t)
        /\ Return(t, IF th.op = "scan_pattern"
                     THEN (IF th.in2 = Len(th.pattern) THEN th.cur ELSE th.first)
                     ELSE (IF th.in2 # Len(th.pattern) THEN th.first + 1 ELSE th.first))
        /\ UNCHANGED Shared

\* scan_excluding: one invocation of the scanner, return
TStepExcluding(t) ==
    LET th == threads[t]
    IN  /\ th.pc = "run"
        /\ th.op = "scan_excluding"
        /\ Return(t, IF invoke_scanner(th.scanner, source, th.first) # th.first
                     THEN th.first
                     ELSE th.first + 1)
        /\ UNCHANGED Shared

\* the loop condition of scan_while_excluding at the working cursor of thread t
WhileContinues(t) ==
    LET th == threads[t]
    IN  /\ th.cur # Len(source)
        /\ invoke_scanner(th.scanner, source, th.cur) = th.cur

\* scan_while_excluding: the condition holds, ++first
TStepWhile(t) ==
    /\ threads[t].pc = "run"
    /\ threads[t].op = "scan_while_excluding"
    /\ WhileContinues(t)
    /\ threads' = [threads EXCEPT ![t].cur = @ + 1]
    /\ UNCHANGED Shared

\* scan_while_excluding: the condition fails, return first
TReturnWhile(t) ==
    /\ threads[t].pc = "run"
    /\ threads[t].op = "scan_while_excluding"
    /\ ~WhileContinues(t)
    /\ Return(t, threads[t].cur)
    /\ UNCHANGED Shared

ConcInit ==
    /\ source \in ConcSources
    /\ first = 0
    /\ result = 0
    /\ Idle
    /\ overload = "iterator"
    /\ trace = NoTrace
    /\ pc = "idle"
    /\ cur = 0
    /\ iters = 0
    /\ threads = [t \in Threads |-> IdleThread]
    /\ chain = <<>>

ConcNext ==
    \E t \in Threads :
        \/ TStart(t)
        \/ TStepElement(t)
        \/ TStepMismatch(t)
        \/ TReturnPattern(t)
        \/ TStepExcluding(t)
        \/ TStepWhile(t)
        \/ TReturnWhile(t)

ConcSpec == ConcInit /\ [][ConcNext]_vars

\* ----------------------------------------------------------------------
\* The example programs: statements first = op(first, last, argument), chained
\* ----------------------------------------------------------------------
\* "Programs must be written for people to read, and only incidentally for
\* machines to execute. -- Harold Abelson"
ProgramsSource ==
    <<80, 114, 111, 103, 114, 97, 109, 115, 32, 109, 117, 115, 116, 32, 98, 101, 32,
      119, 114, 105, 116, 116, 101, 110, 32, 102, 111, 114, 32, 112, 101, 111, 112,
      108, 101, 32, 116, 111, 32, 114, 101, 97, 100, 44, 32, 97, 110, 100, 32, 111,
      110, 108, 121, 32, 105, 110, 99, 105, 100, 101, 110, 116, 97, 108, 108, 121,
      32, 102, 111, 114, 32, 109, 97, 99, 104, 105, 110, 101, 115, 32, 116, 111, 32,
      101, 120, 101, 99, 117, 116, 101, 46, 32, 45, 45, 32, 72, 97, 114, 111, 108,
      100, 32, 65, 98, 101, 108, 115, 111, 110>>

\* "Talk is cheap. Show me the code. -- Linus Torvalds"
TalkSource ==
    <<84, 97, 108, 107, 32, 105, 115, 32, 99, 104, 101, 97, 112, 46, 32, 83, 104,
      111, 119, 32, 109, 101, 32, 116, 104, 101, 32, 99, 111, 100, 101, 46, 32, 45,
      45, 32, 76, 105, 110, 117, 115, 32, 84, 111, 114, 118, 97, 108, 100, 115>>

ExampleSources == {ProgramsSource, TalkSource}

\* 'P' and 'Q'
ExampleValues == {80, 81}

\* "rograms m"sv and "alks"sv
ExamplePatterns == {<<114, 111, 103, 114, 97, 109, 115, 32, 109>>, <<97, 108, 107, 115>>}

\* one statement of main, as recorded in chain
Statement(o, v, pat, up, res) ==
    [op |-> o, value |-> v, pattern |-> pat, upred |-> up, at |-> res]

\* first = <call>: the call returns res and the cursor is assigned it
Execute(o, v, pat, up, res) ==
    /\ Len(chain) < MaxChain
    /\ first \in 0..Len(source)
    /\ first' = res
    /\ result' = res
    /\ chain' = Append(chain, Statement(o, v, pat, up, res))
    /\ UNCHANGED <<source, op, value, pattern, pred, proj1, proj2, upred, scanner,
                   overload, trace, pc, cur, iters, threads>>

\* first = scan(first, last, v);
ExScanValue ==
    \E v \in ExampleValues :
        Execute("scan_value", v, <<>>, "returns_false",
                scan_value(source, first, v, "equal_to", "identity"))

\* first = scan(first, last, pat);
ExScanPattern ==
    \E pat \in ExamplePatterns :
        Execute("scan_pattern", 0, pat, "returns_false",
                scan_pattern_to_range(source, first, pat, "equal_to", "identity", "identity"))

\* first = scan_if(first, last, up);
ExScanIf ==
    \E up \in ExampleUnaryPreds :
        Execute("scan_if", 0, <<>>, up, scan_if(source, first, up, "identity"))

\* first = scan_not(first, last, v);
ExScanNotValue ==
    \E v \in ExampleValues :
        Execute("scan_not_value", v, <<>>, "returns_false",
                scan_not_value(source, first, v, "equal_to", "identity"))

\* first = scan_not(first, last, pat);
ExScanNotPattern ==
    \E pat \in ExamplePatterns :
        Execute("scan_not_pattern", 0, pat, "returns_false",
                scan_not_pattern_to_range(source, first, pat, "equal_to", "identity",
                                          "identity"))

\* first = scan_if_not(first, last, up);
ExScanIfNot ==
    \E up \in ExampleUnaryPreds :
        Execute("scan_if_not", 0, <<>>, up, scan_if_not(source, first, up, "identity"))

\* auto first = source.begin();
ExampleInit ==
    /\ source \in ExampleSources
    /\ first = 0
    /\ result = 0
    /\ Idle
    /\ overload = "iterator"
    /\ trace = NoTrace
    /\ pc = "idle"
    /\ cur = 0
    /\ iters = 0
    /\ threads = [t \in Threads |-> IdleThread]
    /\ chain = <<>>

ExampleNext ==
    \/ ExScanValue
    \/ ExScanPattern
    \/ ExScanIf
    \/ ExScanNotValue
    \/ ExScanNotPattern
    \/ ExScanIfNot

ExampleSpec == ExampleInit /\ [][ExampleNext]_vars

\* ----------------------------------------------------------------------
\* Vocabulary of the properties
\* ----------------------------------------------------------------------
\* the source has a current element at the caller's cursor
HasElement == first # Len(source)

\* the comparison policy holds of the projected current element and the value
ComparesEqual ==
    invoke_pred(pred, invoke_proj(proj1, source[first + 1]), value)

\* the unary predicate holds of the projected current element
Satisfies ==
    invoke_upred(upred, invoke_proj(proj1, source[first + 1]))

\* the source holds at least N = Len(pattern) elements from first, and each of
\* the first N compares equal to the corresponding pattern element
PatternMatches ==
    /\ first + Len(pattern) <= Len(source)
    /\ \A i \in 1..Len(pattern) :
          invoke_pred(pred, invoke_proj(proj1, source[first + i]),
                            invoke_proj(proj2, pattern[i]))

\* the wrapped scanner reports an advancement at position p
Advances(p) == invoke_scanner(scanner, source, p) # p

\* scan_while_excluding stops at position p
Stops(p) == p = Len(source) \/ Advances(p)

\* ----------------------------------------------------------------------
\* Properties
\* ----------------------------------------------------------------------
\* C1: scan with a pattern of length N returns first + N when the source holds
\* at least N elements from first and every pair compares equal; otherwise
\* (source too short, or some pair differs) it returns first itself, never a
\* partially advanced position.
C1_ScanPatternAdvancesByN ==
    op = "scan_pattern" =>
        result = IF PatternMatches THEN first + Len(pattern) ELSE first

\* a two-element pattern matched: the cursor moved by two
C1_Witness ==
    /\ op = "scan_pattern"
    /\ pred = "equal_to"
    /\ Len(pattern) = 2
    /\ PatternMatches
    /\ result = first + 2

\* C2: scan with a value returns first + 1 when first is not the end and the
\* comparison policy holds of the projected current element and the value;
\* in every other case it returns first.
C2_ScanValueAdvancesByOne ==
    op = "scan_value" =>
        result = IF HasElement /\ ComparesEqual THEN first + 1 ELSE first

\* 'H' projected to lower case equals the value 'h': the cursor moved by one
C2_Witness ==
    /\ op = "scan_value"
    /\ pred = "equal_to"
    /\ proj1 = "to_lower"
    /\ HasElement
    /\ source[first + 1] = 72
    /\ value = 104
    /\ result = first + 1

\* C3: scan_not with a pattern returns first + 1 exactly when the first N
\* source elements do not all equal the pattern (source shorter than N, or
\* some pair differs), and first when the pattern matches; it never advances
\* by N.
C3_ScanNotPatternAdvancesByOne ==
    op = "scan_not_pattern" =>
        /\ (result = first + 1) <=> ~PatternMatches
        /\ PatternMatches => result = first
        /\ result \in {first, first + 1}

\* a two-element pattern whose second element differs: advanced by one, not two
C3_Witness ==
    /\ op = "scan_not_pattern"
    /\ pred = "equal_to"
    /\ Len(pattern) = 2
    /\ first + 2 <= Len(source)
    /\ source[first + 1] = pattern[1]
    /\ source[first + 2] # pattern[2]
    /\ proj1 = "identity"
    /\ proj2 = "identity"
    /\ result = first + 1

\* C4: scan_excluding returns first + 1 exactly when the wrapped scanner,
\* invoked at first, returns first; when the scanner returns any other
\* position, scan_excluding returns first.
C4_ScanExcludingVeto ==
    op = "scan_excluding" =>
        /\ (result = first + 1) <=> ~Advances(first)
        /\ Advances(first) => result = first

\* the wrapped scan matched a two-element pattern, so the veto held the cursor
C4_Witness ==
    /\ op = "scan_excluding"
    /\ scanner.kind = "scan_pattern"
    /\ Len(scanner.pattern) = 2
    /\ invoke_scanner(scanner, source, first) = first + 2
    /\ result = first

\* C5: scan_while_excluding returns the least position p in first..last that
\* is the end or at which the wrapped scanner advances; it never passes the
\* end, and returns the end when the scanner advances nowhere.
C5_ScanWhileExcludingLeastStop ==
    op = "scan_while_excluding" =>
        /\ result \in first..Len(source)
        /\ Stops(result)
        /\ \A q \in first..(result - 1) : ~Stops(q)
        /\ (\A q \in first..(Len(source) - 1) : ~Advances(q)) => result = Len(source)

\* two elements skipped, then the scanner advanced before the end
C5_Witness ==
    /\ op = "scan_while_excluding"
    /\ result = first + 2
    /\ result < Len(source)
    /\ Advances(result)

\* the match condition of the operation called, as the contracts state it
MatchCondition ==
    CASE op = "scan_value"           -> HasElement /\ ComparesEqual
      [] op = "scan_pattern"         -> PatternMatches
      [] op = "scan_if"              -> HasElement /\ Satisfies
      [] op = "scan_not_value"       -> HasElement /\ ~ComparesEqual
      [] op = "scan_not_pattern"     -> ~PatternMatches
      [] op = "scan_if_not"          -> HasElement /\ ~Satisfies
      [] op = "scan_excluding"       -> ~Advances(first)
      [] op = "scan_while_excluding" -> HasElement /\ ~Advances(first)

\* the returned position is advanced on a match and identical to the input
\* position exactly when the match condition is false
OutcomeByIdentity ==
    /\ result >= first
    /\ (result = first) <=> ~MatchCondition

\* C6 as stated: for every operation and all inputs, empty sources and empty
\* patterns included, the returned position equals the input position exactly
\* when the match condition is false.
C6_Original ==
    op # "none" => OutcomeByIdentity

\* C6 amended: the outcome contract holds for every operation and all inputs
\* except scan called with a zero-element pattern, which matches and yet
\* returns the input position.
C6_OutcomeContract ==
    /\ (op # "none" /\ ~(op = "scan_pattern" /\ pattern = <<>>)) => OutcomeByIdentity
    /\ (op = "scan_pattern" /\ pattern = <<>>) => (MatchCondition /\ result = first)

\* empty source and empty pattern: scan_not does not match and returns first
C6_Witness ==
    /\ op = "scan_not_pattern"
    /\ source = <<>>
    /\ pattern = <<>>
    /\ ~MatchCondition
    /\ result = first

\* C7: scan with a pattern of zero elements returns exactly the input
\* position, for every source and position.
C7_EmptyPattern ==
    (op = "scan_pattern" /\ pattern = <<>>) => result = first

\* empty pattern on a source that still has elements
C7_Witness ==
    /\ op = "scan_pattern"
    /\ pattern = <<>>
    /\ HasElement
    /\ result = first

\* C8: scan_if returns first + 1 when first is not the end and the predicate
\* holds of the projected current element; otherwise it returns first.
C8_ScanIf ==
    op = "scan_if" =>
        result = IF HasElement /\ Satisfies THEN first + 1 ELSE first

\* is_h_lower holds of 'H' projected to lower case
C8_Witness ==
    /\ op = "scan_if"
    /\ upred = "is_h_lower"
    /\ proj1 = "to_lower"
    /\ HasElement
    /\ source[first + 1] = 72
    /\ result = first + 1

\* C9: scan_not with a value advances by exactly one iff there is a current
\* element and it, projected, does not compare equal to the value; when it
\* compares equal the cursor is unchanged; it never advances by more than one.
C9_ScanNotValue ==
    op = "scan_not_value" =>
        /\ (result = first + 1) <=> (HasElement /\ ~ComparesEqual)
        /\ (HasElement /\ ComparesEqual) => result = first
        /\ result \in {first, first + 1}

\* 'H' projected to lower case differs from the value 'H'
C9_Witness ==
    /\ op = "scan_not_value"
    /\ pred = "equal_to"
    /\ proj1 = "to_lower"
    /\ HasElement
    /\ source[first + 1] = 72
    /\ value = 72
    /\ result = first + 1

\* C10: scan_if_not advances by exactly one iff there is a current element
\* and the predicate returns false of it, projected; otherwise it returns
\* first.
C10_ScanIfNot ==
    op = "scan_if_not" =>
        /\ (result = first + 1) <=> (HasElement /\ ~Satisfies)
        /\ ~(HasElement /\ ~Satisfies) => result = first

\* is_H_upper is false of 'H' projected to lower case
C10_Witness ==
    /\ op = "scan_if_not"
    /\ upred = "is_H_upper"
    /\ proj1 = "to_lower"
    /\ HasElement
    /\ source[first + 1] = 72
    /\ result = first + 1

\* C11 as stated: for every source position, exactly one of scan_if and
\* scan_if_not, called with the same position, predicate and projection,
\* returns an advanced position.
C11_Original ==
    /\ op = "scan_if" =>
          ((result # first) # (scan_if_not(source, first, upred, proj1) # first))
    /\ op = "scan_if_not" =>
          ((result # first) # (scan_if(source, first, upred, proj1) # first))

\* C11 amended: at every position that is not the End Marker exactly one of
\* scan_if and scan_if_not advances; at the End Marker neither does.
C11_Complementarity ==
    /\ (op = "scan_if" /\ HasElement) =>
          ((result # first) # (scan_if_not(source, first, upred, proj1) # first))
    /\ (op = "scan_if_not" /\ HasElement) =>
          ((result # first) # (scan_if(source, first, upred, proj1) # first))
    /\ (op = "scan_if" /\ ~HasElement) =>
          (result = first /\ scan_if_not(source, first, upred, proj1) = first)
    /\ (op = "scan_if_not" /\ ~HasElement) =>
          (result = first /\ scan_if(source, first, upred, proj1) = first)

\* scan_if held the cursor on an element where scan_if_not advances
C11_Witness ==
    /\ op = "scan_if"
    /\ HasElement
    /\ upred = "is_H_upper"
    /\ proj1 = "to_lower"
    /\ result = first
    /\ scan_if_not(source, first, upred, proj1) = first + 1

\* the pattern occurs in the source at position p (default equality, no
\* projection)
OccursAt(p, pat) ==
    /\ p + Len(pat) <= Len(source)
    /\ \A i \in 1..Len(pat) : source[p + i] = pat[i]

\* the positions at or after first where the pattern occurs
Occurrences(pat) == {p \in first..Len(source) : OccursAt(p, pat)}

\* C13: scan_while_excluding wrapping scan with a non-empty pattern returns
\* the position of the first occurrence of the pattern at or after first, and
\* the End Marker when the pattern occurs nowhere at or after first.
C13_SkipUntilPattern ==
    (/\ op = "scan_while_excluding"
     /\ scanner.kind = "scan_pattern"
     /\ scanner.pattern # <<>>) =>
        LET occ == Occurrences(scanner.pattern)
        IN  /\ occ = {} => result = Len(source)
            /\ occ # {} => /\ result \in occ
                           /\ \A q \in occ : result <= q

\* a two-element pattern found one element after first
C13_Witness ==
    /\ op = "scan_while_excluding"
    /\ scanner.kind = "scan_pattern"
    /\ Len(scanner.pattern) = 2
    /\ result = first + 1
    /\ OccursAt(result, scanner.pattern)
    /\ source[first + 1] = scanner.pattern[1]

\* the source holds at least N = Len(pattern) elements from first
HoldsPattern == first + Len(pattern) <= Len(source)

\* C16: the comparison policy alone decides.  With returns_true, scan
\* advances by one for any value and by N for any length-N pattern, and
\* scan_not does not advance (source holding the elements compared); with
\* returns_false scan does not advance, and scan_not advances by exactly one
\* whenever something is compared, even when the elements are equal.
C16_PolicyDecides ==
    /\ (op = "scan_value" /\ pred = "returns_true" /\ HasElement) =>
          result = first + 1
    /\ (op = "scan_pattern" /\ pred = "returns_true" /\ HoldsPattern) =>
          result = first + Len(pattern)
    /\ (op = "scan_not_value" /\ pred = "returns_true") => result = first
    /\ (op = "scan_not_pattern" /\ pred = "returns_true" /\ HoldsPattern) =>
          result = first
    /\ (op \in {"scan_value", "scan_pattern"} /\ pred = "returns_false") =>
          result = first
    /\ (op = "scan_not_value" /\ pred = "returns_false" /\ HasElement) =>
          result = first + 1
    /\ (op = "scan_not_pattern" /\ pred = "returns_false" /\ pattern # <<>>) =>
          result = first + 1

\* returns_false over a pattern equal to the source prefix: scan_not advanced
C16_Witness ==
    /\ op = "scan_not_pattern"
    /\ pred = "returns_false"
    /\ proj1 = "identity"
    /\ proj2 = "identity"
    /\ Len(pattern) = 2
    /\ OccursAt(first, pattern)
    /\ result = first + 1

\* every pair of the pattern form is equal after projecting the source element
\* by proj1 and the pattern element by proj2
AllProjectedEqual ==
    /\ HoldsPattern
    /\ \A i \in 1..Len(pattern) :
          invoke_proj(proj1, source[first + i]) = invoke_proj(proj2, pattern[i])

\* C17: under the default equality, the value forms compare the projected
\* source element with the value as given, and the pattern forms compare
\* source elements projected by the first projection with pattern elements
\* projected by the second.
C17_ProjectionSides ==
    /\ (op = "scan_value" /\ pred = "equal_to" /\ HasElement) =>
          ((result = first + 1) <=> (invoke_proj(proj1, source[first + 1]) = value))
    /\ (op = "scan_not_value" /\ pred = "equal_to" /\ HasElement) =>
          ((result = first + 1) <=> (invoke_proj(proj1, source[first + 1]) # value))
    /\ (op = "scan_pattern" /\ pred = "equal_to") =>
          result = IF AllProjectedEqual THEN first + Len(pattern) ELSE first
    /\ (op = "scan_not_pattern" /\ pred = "equal_to") =>
          result = IF AllProjectedEqual THEN first ELSE first + 1

\* to_lower on a source at 'H' does not match the value 'H'
C17_Witness ==
    /\ op = "scan_value"
    /\ pred = "equal_to"
    /\ proj1 = "to_lower"
    /\ HasElement
    /\ source[first + 1] = 72
    /\ value = 72
    /\ result = first

\* the call was one of the single-element forms
SingleElementForm ==
    op \in {"scan_value", "scan_not_value", "scan_if", "scan_if_not"}

\* C14: a single-element form on a source that has a current element reads it
\* once, invokes the predicate / comparison policy exactly once and the
\* projection at most once; at the End Marker it reads nothing and invokes
\* neither.
C14_SingleElementInvocations ==
    SingleElementForm =>
        IF HasElement
        THEN trace.reads = 1 /\ trace.preds = 1 /\ trace.projs1 <= 1
        ELSE trace.reads = 0 /\ trace.preds = 0 /\ trace.projs1 = 0

\* scan_if_not advanced after one read and one call of the predicate
C14_Witness ==
    /\ op = "scan_if_not"
    /\ HasElement
    /\ trace.reads = 1
    /\ trace.preds = 1
    /\ result = first + 1

\* the call was one of the pattern forms
PatternForm == op \in {"scan_pattern", "scan_not_pattern"}

\* the number of source elements from first
Available == Len(source) - first

\* the offsets, within both ranges, of the pairs that do not satisfy the policy
MismatchingPairs ==
    {k \in 0..(Min(Available, Len(pattern)) - 1) :
        ~invoke_pred(pred, invoke_proj(proj1, source[first + k + 1]),
                           invoke_proj(proj2, pattern[k + 1]))}

\* min(k + 1, |source|, N) with k the offset of the first mismatching pair
ExpectedComparisons ==
    IF MismatchingPairs = {}
    THEN Min(Available, Len(pattern))
    ELSE (CHOOSE k \in MismatchingPairs : \A j \in MismatchingPairs : k <= j) + 1

\* C15: the pattern forms compare the pairs left to right from the first one,
\* transform each compared element of either side exactly once, and compare
\* nothing after the first mismatching pair or after either range is
\* exhausted: min(k + 1, |source|, N) comparisons.
C15_ShortCircuit ==
    PatternForm =>
        /\ trace.compared = [i \in 1..ExpectedComparisons |-> i - 1]
        /\ trace.preds = ExpectedComparisons
        /\ trace.projs1 = ExpectedComparisons
        /\ trace.projs2 = ExpectedComparisons

\* the first pair differs: the second pair is never compared
C15_Witness ==
    /\ op = "scan_not_pattern"
    /\ pred = "equal_to"
    /\ Len(pattern) = 2
    /\ Available >= 2
    /\ 0 \in MismatchingPairs
    /\ trace.compared = <<0>>
    /\ trace.projs2 = 1

\* the cursor / end-marker overload of the operation called, with the
\* arguments of the call, started at position f
IteratorForm(f) ==
    CASE op = "scan_value"       -> scan_value(source, f, value, pred, proj1)
      [] op = "scan_pattern"     -> scan_pattern(source, f, pattern, pred, proj1, proj2)
      [] op = "scan_if"          -> scan_if(source, f, upred, proj1)
      [] op = "scan_not_value"   -> scan_not_value(source, f, value, pred, proj1)
      [] op = "scan_not_pattern" -> scan_not_pattern(source, f, pattern, pred, proj1, proj2)
      [] op = "scan_if_not"      -> scan_if_not(source, f, upred, proj1)

\* C18: an overload taking the source and/or the pattern as a range returns
\* the position the cursor / end-marker overload returns for the range's
\* begin and end.
C18_RangeOverloads ==
    /\ overload \in {"source_range", "both_ranges"} => result = IteratorForm(0)
    /\ overload = "pattern_range" => result = IteratorForm(first)

\* scan(source, 'h', {}, to_lower) on a source that begins with 'H'
C18_Witness ==
    /\ overload = "source_range"
    /\ op = "scan_value"
    /\ pred = "equal_to"
    /\ proj1 = "to_lower"
    /\ source # <<>>
    /\ source[1] = 72
    /\ value = 104
    /\ result = 1

\* C12: on every finite source and with every wrapped scanner that returns,
\* a call of scan_while_excluding that has entered its loop eventually
\* returns, after at most last - first iterations.
C12_Termination ==
    /\ [](iters <= Len(source) - first)
    /\ (pc = "loop") ~> (pc = "done")

\* the loop ran over the whole source, two elements or more, and returned
C12_Witness ==
    /\ pc = "done"
    /\ iters >= 2
    /\ iters = Len(source) - first
    /\ result = Len(source)

\* the position the call of thread record th returns when it runs alone
Alone(th) ==
    CASE th.op = "scan_value" ->
             scan_value(source, th.first, th.value, "equal_to", "identity")
      [] th.op = "scan_not_value" ->
             scan_not_value(source, th.first, th.value, "equal_to", "identity")
      [] th.op = "scan_if" ->
             scan_if(source, th.first, th.upred, "identity")
      [] th.op = "scan_if_not" ->
             scan_if_not(source, th.first, th.upred, "identity")
      [] th.op = "scan_pattern" ->
             scan_pattern(source, th.first, th.pattern, "equal_to", "identity", "identity")
      [] th.op = "scan_not_pattern" ->
             scan_not_pattern(source, th.first, th.pattern, "equal_to", "identity", "identity")
      [] th.op = "scan_excluding" ->
             scan_excluding(source, th.first, th.scanner)
      [] th.op = "scan_while_excluding" ->
             scan_while_excluding(source, th.first, th.scanner)

\* the arguments a running call of a thread was entered with
Arguments(th) == <<th.op, th.first, th.value, th.pattern, th.upred, th.scanner>>

\* C19: no step of any call changes an element or the bounds of the source or
\* of the comparison range, nor any other argument; a call only moves its own
\* working cursors and returns a position.
C19_NoSideEffects ==
    [][/\ source' = source
       /\ \A t \in Threads :
             threads[t].pc = "run" => Arguments(threads'[t]) = Arguments(threads[t])]_vars

\* a pattern call that has compared a pair returned, next to the intact source
C19_Witness ==
    \E t \in Threads :
        /\ threads[t].pc = "done"
        /\ threads[t].op = "scan_pattern"
        /\ threads[t].pattern = <<72, 104>>
        /\ threads[t].result = threads[t].first + 2
        /\ source = <<72, 104>>

\* C20: under every interleaving of concurrent calls on one read-only source,
\* each call returns the position it returns when run alone, and no step
\* writes the shared source or the state of another thread's call.
C20_ConcurrentUse ==
    /\ [](\A t \in Threads :
             threads[t].pc = "done" => threads[t].result = Alone(threads[t]))
    /\ [][/\ source' = source
          /\ \A t, u \in Threads :
                (t # u /\ threads'[t] # threads[t]) => threads'[u] = threads[u]]_vars

\* both threads returned from multi-step calls over the same source
C20_Witness ==
    /\ threads[1].pc = "done"
    /\ threads[2].pc = "done"
    /\ threads[1].op = "scan_pattern"
    /\ threads[1].result = threads[1].first + 2
    /\ threads[2].op = "scan_while_excluding"
    /\ threads[2].result = threads[2].first + 1

\* the statements of the first example program and of the second, in order
ProgramsMain ==
    <<[op |-> "scan_value", value |-> 80, pattern |-> <<>>, upred |-> "returns_false"],
      [op |-> "scan_pattern", value |-> 0,
       pattern |-> <<114, 111, 103, 114, 97, 109, 115, 32, 109>>,
       upred |-> "returns_false"],
      [op |-> "scan_if", value |-> 0, pattern |-> <<>>, upred |-> "is_u_lower"]>>

TalkMain ==
    <<[op |-> "scan_not_value", value |-> 81, pattern |-> <<>>, upred |-> "returns_false"],
      [op |-> "scan_not_pattern", value |-> 0, pattern |-> <<97, 108, 107, 115>>,
       upred |-> "returns_false"],
      [op |-> "scan_if_not", value |-> 0, pattern |-> <<>>, upred |-> "is_f_lower"]>>

\* the call of a recorded statement, without its result
CallOf(st) ==
    [op |-> st.op, value |-> st.value, pattern |-> st.pattern, upred |-> st.upred]

\* the first k statements executed are the first k statements of main
Follows(main, k) ==
    /\ k <= Len(chain)
    /\ k <= Len(main)
    /\ \A i \in 1..k : CallOf(chain[i]) = main[i]

\* after each of the first statements of main, the cursor is at the offset
\* listed and the element under it is the character listed
LeavesCursorOn(src, main, offsets, chars) ==
    source = src =>
        \A k \in 1..Len(main) :
            Follows(main, k) =>
                /\ chain[k].at = offsets[k]
                /\ source[chain[k].at + 1] = chars[k]

\* C21: chained scans, each started at the position the previous one
\* returned, accumulate their advancements.  On "Programs must be written ..."
\* scan 'P', scan "rograms m", scan_if(c == 'u') leave the cursor on 'r', 'u',
\* 's' (offsets 1, 10, 11); on "Talk is cheap. ..." scan_not 'Q', scan_not
\* "alks", scan_if_not(c == 'f') leave it on 'a', 'l', 'k' (offsets 1, 2, 3).
C21_ChainedScans ==
    /\ LeavesCursorOn(ProgramsSource, ProgramsMain, <<1, 10, 11>>, <<114, 117, 115>>)
    /\ LeavesCursorOn(TalkSource, TalkMain, <<1, 2, 3>>, <<97, 108, 107>>)
    /\ first = IF chain = <<>> THEN 0 ELSE chain[Len(chain)].at

\* the second example program ran to its last statement
C21_Witness ==
    /\ source = TalkSource
    /\ Follows(TalkMain, 3)
    /\ first = 3

\* the returned position lies between the input position and the End Marker
WithinBounds == first <= result /\ result <= Len(source)

\* C22: scan_not in pattern form never returns a position past the End
\* Marker: for every source, a source at its End Marker included, and every
\* pattern, the returned position p satisfies first <= p <= last.
C22_ScanNotPatternBounded ==
    op = "scan_not_pattern" => WithinBounds

\* C23: scan_excluding never returns a position past the End Marker: for
\* every source, first == last included, and every wrapped scanner, the
\* returned position p satisfies first <= p <= last.
C23_ScanExcludingBounded ==
    op = "scan_excluding" => WithinBounds

\* C24: scan in value and pattern form, scan_if, scan_not in value form,
\* scan_if_not and scan_while_excluding return a position p with
\* first <= p <= last: never before the input position, never past the End
\* Marker.
C24_BoundedMonotone ==
    op \in {"scan_value", "scan_pattern", "scan_if", "scan_not_value", "scan_if_not",
            "scan_while_excluding"} => WithinBounds

\* a two-element pattern matched the last two elements: the result is the End
\* Marker itself
C24_Witness ==
    /\ op = "scan_pattern"
    /\ Len(pattern) = 2
    /\ result = first + 2
    /\ result = Len(source)

\* the call is scan_excluding wrapping scan with a zero-element pattern
VetoOfEmptyPattern ==
    /\ op = "scan_excluding"
    /\ scanner.kind = "scan_pattern"
    /\ scanner.pattern = <<>>

\* C25 as stated: for every source, scan_excluding wrapping scan with a
\* zero-element pattern returns the original position unchanged.
C25_Original ==
    VetoOfEmptyPattern => result = first

\* C25 amended: scan with a zero-element pattern returns the input position,
\* which scan_excluding reads as no advancement: for every source the veto
\* built on it never vetoes and returns first + 1.
C25_EmptyPatternVeto ==
    VetoOfEmptyPattern =>
        /\ invoke_scanner(scanner, source, first) = first
        /\ result = first + 1

\* the veto of the empty pattern moved the cursor over an element
C25_Witness ==
    /\ VetoOfEmptyPattern
    /\ HasElement
    /\ result = first + 1

\* C26: for every source, empty or not, and every non-empty pattern,
\* scan_not in pattern form returns the position that scan_excluding returns
\* when it wraps scan with the same pattern, comparison policy and
\* projections.
C26_ScanNotIsVetoOfScan ==
    (op = "scan_not_pattern" /\ pattern # <<>>) =>
        result = scan_excluding(source, first, BoundScan(pattern, pred, proj1, proj2))

\* a two-element pattern under a case-insensitive comparison that fails on the
\* second pair: scan_not and the veto of scan both advance by one
C26_Witness ==
    /\ op = "scan_not_pattern"
    /\ pred = "equal_to"
    /\ proj1 = "to_lower"
    /\ proj2 = "to_lower"
    /\ Len(pattern) = 2
    /\ first + 2 <= Len(source)
    /\ to_lower(source[first + 1]) = to_lower(pattern[1])
    /\ to_lower(source[first + 2]) # to_lower(pattern[2])
    /\ result = first + 1
    /\ scan_pattern(source, first, pattern, pred, proj1, proj2) = first

\* the positions from p up to, not including, q, in order
PositionsFrom(p, q) == [i \in 1..(q - p) |-> p + i - 1]

\* C27: scan_while_excluding invokes the wrapped scanner exactly once at each
\* position it tests, in order, and never at the End Marker: no invocation
\* when first == last, one per skipped element, plus one at the stopping
\* position when it stops before the End Marker.
C27_OneInvocationPerPosition ==
    /\ pc = "loop" => trace.scanned = PositionsFrom(first, cur)
    /\ pc = "done" =>
          /\ trace.scanned =
                PositionsFrom(first, IF result # Len(source) THEN result + 1 ELSE result)
          /\ \A i \in 1..Len(trace.scanned) : trace.scanned[i] # Len(source)
          /\ first = Len(source) => trace.scanned = <<>>

\* two elements skipped and the scanner advanced at the third: three
\* invocations
C27_Witness ==
    /\ pc = "done"
    /\ result = first + 2
    /\ result # Len(source)
    /\ trace.scanned = <<first, first + 1, first + 2>>

\* C28: scan_while_excluding is the guarded iteration of scan_excluding.  For
\* first == last it returns first; for first != last it returns first when
\* scan_excluding at first returns first, and otherwise what
\* scan_while_excluding returns when started at first + 1.
C28_GuardedIteration ==
    pc = "done" =>
        result = IF first = Len(source)
                 THEN first
                 ELSE IF scan_excluding(source, first, scanner) = first
                      THEN first
                      ELSE scan_while_excluding(source, first + 1, scanner)

\* scan_excluding advanced at first, and the loop stopped two elements later
C28_Witness ==
    /\ pc = "done"
    /\ first # Len(source)
    /\ scan_excluding(source, first, scanner) = first + 1
    /\ result = first + 2
    /\ scan_while_excluding(source, first + 1, scanner) = first + 2

\* C29: scan_while_excluding is idempotent: started again at the position p
\* it returned, with the same source and scanner, it returns p.
C29_Idempotent ==
    op = "scan_while_excluding" =>
        scan_while_excluding(source, result, scanner) = result

\* the first call skipped an element and stopped before the End Marker; the
\* second call stays there
C29_Witness ==
    /\ op = "scan_while_excluding"
    /\ result = first + 1
    /\ result # Len(source)
    /\ scan_while_excluding(source, result, scanner) = result

\* every pair of the pattern form has the source element, projected by proj1,
\* less than the pattern element, projected by proj2
AllProjectedLess ==
    /\ HoldsPattern
    /\ \A i \in 1..Len(pattern) :
          invoke_proj(proj1, source[first + i]) < invoke_proj(proj2, pattern[i])

\* C30: the comparison policy receives the projected source element as its
\* first operand and the value or projected pattern element as its second.
\* With the policy 'less than', scan advances exactly when the source element
\* is less than the value (each source element less than its pattern
\* element), and scan_not exactly when that is not so.
C30_OperandOrder ==
    /\ (op = "scan_value" /\ pred = "less") =>
          ((result = first + 1) <=>
               (HasElement /\ invoke_proj(proj1, source[first + 1]) < value))
    /\ (op = "scan_not_value" /\ pred = "less") =>
          ((result = first + 1) <=>
               (HasElement /\ ~(invoke_proj(proj1, source[first + 1]) < value)))
    /\ (op = "scan_pattern" /\ pred = "less") =>
          result = IF AllProjectedLess THEN first + Len(pattern) ELSE first
    /\ (op = "scan_not_pattern" /\ pred = "less") =>
          result = IF AllProjectedLess THEN first ELSE first + 1

\* 'H' is less than 'h': scan with 'less than' advanced over 'H' for the value
\* 'h', which it would not with the operands swapped
C30_Witness ==
    /\ op = "scan_value"
    /\ pred = "less"
    /\ proj1 = "identity"
    /\ HasElement
    /\ source[first + 1] = 72
    /\ value = 104
    /\ result = first + 1

====
